---- MODULE Spec2Model ----
(***************************************************************************)
(* Smart Code Tutor backend: the WebSocket registry (WebSocketManager),    *)
(* the per-connection command loop (websocket_endpoint and its two         *)
(* handlers) and the code executor's event stream (CodeExecutor).          *)
(*                                                                         *)
(* Text is a sequence of characters over a three-letter alphabet: one      *)
(* printable character, a space and a newline, which is what strip() and   *)
(* split('\n') tell apart.  Timestamps and execution times are left out of *)
(* the events: nothing in the code branches on them.                       *)
(***************************************************************************)
EXTENDS Integers, Sequences, FiniteSets, TLC

MaxLen == 2

Chars == {"a", " ", "\n"}

Whitespace == {" ", "\n"}

Strs == UNION {[1..k -> Chars] : k \in 0..MaxLen}

ShortStrs == UNION {[1..k -> Chars] : k \in 0..1}

(***************************************************************************)
(* str methods used by the code                                            *)
(***************************************************************************)
RECURSIVE lstrip(_)
lstrip(s) ==
    IF s = <<>> THEN <<>>
    ELSE IF Head(s) \in Whitespace THEN lstrip(Tail(s)) ELSE s

RECURSIVE rstrip(_)
rstrip(s) ==
    IF s = <<>> THEN <<>>
    ELSE IF s[Len(s)] \in Whitespace THEN rstrip(SubSeq(s, 1, Len(s) - 1)) ELSE s

strip(s) == rstrip(lstrip(s))

\* truth value of a str: non-empty
Truthy(s) == s # <<>>

\* s.split('\n'): the pieces between newlines, empty pieces included
RECURSIVE splitFrom(_, _)
splitFrom(s, cur) ==
    IF s = <<>> THEN <<cur>>
    ELSE IF Head(s) = "\n" THEN <<cur>> \o splitFrom(Tail(s), <<>>)
    ELSE splitFrom(Tail(s), Append(cur, Head(s)))

split(s) == splitFrom(s, <<>>)

\* "\n".join(parts)
RECURSIVE join(_)
join(parts) ==
    IF parts = <<>> THEN <<>>
    ELSE IF Len(parts) = 1 THEN parts[1]
    ELSE parts[1] \o <<"\n">> \o join(Tail(parts))

(***************************************************************************)
(* CodeExecutor                                                            *)
(***************************************************************************)
supported_languages == {"python", "javascript", "bash", "r", "java"}

Languages == supported_languages \cup {"ruby", "Python", ""}

Codes == {<<>>, <<" ">>, <<"a">>, <<"\n", "a">>}

\* What the remote sandbox does with one run_code call: it fails to start or
\* to answer (raised), or returns an execution with logs, results and an
\* optional error object (a sequence of zero or one error texts).
LogLists ==
    {<<>>} \cup {<<s>> : s \in Strs} \cup {<<s, t>> : s \in ShortStrs, t \in ShortStrs}

ErrLogLists == {<<>>} \cup {<<s>> : s \in Strs}

ResultLists == {<<>>, <<[text |-> <<"a">>, data |-> <<>>]>>, <<[text |-> <<>>, data |-> <<"a">>]>>}

SandboxOutcomes ==
    {[raised |-> TRUE]} \cup
    [raised : {FALSE}, error : {<<>>, <<<<"a">>>>}, stdout : LogLists,
     stderr : ErrLogLists, results : ResultLists]

\* What exec(code) does in the local Python fallback: it prints out/err and
\* either returns or raises an exception with text exc[1].
PyOutcomes == [exc : {<<>>, <<<<"a">>>>, <<<<>>>>}, out : Strs, err : Strs]

\* exec(code) never returns: the program loops forever
PyDiverges == [kind |-> "diverges"]

\* exec(code) raises SystemExit or KeyboardInterrupt, which are not
\* subclasses of Exception (the restricted builtins leave them within reach
\* of the program, e.g. as print.__self__.SystemExit)
PyExits == [kind |-> "exits"]

\* What the node subprocess does in the local JavaScript fallback.
JsOutcomes ==
    {[kind |-> "timeout"], [kind |-> "oserror"]} \cup
    [kind : {"exit"}, returncode : {0, 1}, stdout : Strs, stderr : Strs]

NoOutcome == [kind |-> "none"]

\* What run_code reports for the javascript wrapper when the node program
\* behaves as b in the sandbox: the wrapper prints the program's stdout, its
\* stderr if there is any and its exit code if it is not zero, all three on
\* its own stdout, and raises only if subprocess.run does (node missing,
\* timeout).
js_wrapper_execution(b) ==
    IF b.kind = "timeout"
    THEN [raised |-> FALSE, error |-> << <<"TimeoutExpired">> >>, stdout |-> <<>>,
          stderr |-> <<>>, results |-> <<>>]
    ELSE IF b.kind = "oserror"
    THEN [raised |-> FALSE, error |-> << <<"FileNotFoundError">> >>, stdout |-> <<>>,
          stderr |-> <<>>, results |-> <<>>]
    ELSE [raised |-> FALSE, error |-> <<>>,
          stdout |-> << <<"STDOUT:", " ">> \o b.stdout \o <<"\n">> >>
                     \o (IF Truthy(b.stderr)
                         THEN << <<"STDERR:", " ">> \o b.stderr \o <<"\n">> >>
                         ELSE <<>>)
                     \o (IF b.returncode # 0
                         THEN << <<"EXIT CODE:", " ", "1", "\n">> >>
                         ELSE <<>>),
          stderr |-> <<>>, results |-> <<>>]

BackendOutcomes(e2b, language) ==
    IF e2b THEN SandboxOutcomes
    ELSE IF language = "python" THEN PyOutcomes \cup {PyDiverges, PyExits}
    ELSE IF language = "javascript" THEN JsOutcomes
    ELSE {NoOutcome}

\* the interpreter that is given the submitted code inside the sandbox:
\* run_code runs Python source, which for javascript and bash is a wrapper
\* that hands the code to node or to /bin/bash, and for every other language
\* is the submitted code itself
run_code_interpreter(language) ==
    IF language = "python" THEN "python"
    ELSE IF language = "javascript" THEN "node"
    ELSE IF language = "bash" THEN "/bin/bash"
    ELSE "python"

\* the interpreter that is given the submitted code without the sandbox
fallback_interpreter(language) ==
    IF language = "python" THEN "python"
    ELSE IF language = "javascript" THEN "node"
    ELSE "none"

Interpreter(e2b, language) ==
    IF e2b THEN run_code_interpreter(language) ELSE fallback_interpreter(language)

RECURSIVE resultsText(_)
resultsText(results) ==
    IF results = <<>> THEN <<>>
    ELSE (IF Truthy(Head(results).text)
          THEN Head(results).text \o <<"\n">>
          ELSE Head(results).data \o <<"\n">>) \o resultsText(Tail(results))

\* The result dict, with raised = TRUE when an exception leaves the method
\* (the method catches every Exception, so it never does).
_execute_with_e2b(language, o) ==
    IF o.raised
    THEN [raised |-> FALSE, success |-> FALSE, output |-> <<>>,
          error |-> <<"E", "2", "B">>]
    ELSE [raised |-> FALSE,
          success |-> o.error = <<>>,
          output |-> strip(join(o.stdout) \o resultsText(o.results)),
          error |-> strip(join(o.stderr) \o (IF o.error # <<>> THEN o.error[1] ELSE <<>>))]

_execute_python_fallback(o) ==
    IF o.exc = <<>>
    THEN [raised |-> FALSE, success |-> TRUE, output |-> o.out, error |-> o.err]
    ELSE [raised |-> FALSE, success |-> FALSE, output |-> <<>>, error |-> o.exc[1]]

\* The result dict, and what the call leaves behind in the operating system:
\* temp_file, whether the file it wrote still exists, and process, whether
\* the node process it spawned is still running.  os.unlink is reached only
\* when communicate() returns in time; wait_for cancels communicate() on a
\* timeout and nothing kills the process.
_execute_javascript_fallback(o) ==
    IF o.kind = "timeout"
    THEN [raised |-> FALSE, success |-> FALSE, output |-> <<>>,
          error |-> <<"t", "i", "m", "e", "d">>, temp_file |-> TRUE, process |-> TRUE]
    ELSE IF o.kind = "oserror"
    THEN [raised |-> FALSE, success |-> FALSE, output |-> <<>>, error |-> <<"o", "s">>,
          temp_file |-> TRUE, process |-> FALSE]
    ELSE [raised |-> FALSE, success |-> o.returncode = 0,
          output |-> o.stdout, error |-> o.stderr, temp_file |-> FALSE, process |-> FALSE]

_execute_fallback_unnamed(language, o) ==
    IF language = "python" THEN _execute_python_fallback(o)
    ELSE IF language = "javascript" THEN _execute_javascript_fallback(o)
    ELSE [raised |-> FALSE, success |-> FALSE, output |-> <<>>,
          error |-> <<"F", "a", "l", "l", "b", "a", "c", "k">>]

_execute_fallback(language, o) ==
    IF language = "python" THEN _execute_python_fallback(o)
    ELSE IF language = "javascript" THEN _execute_javascript_fallback(o)
    ELSE [raised |-> FALSE, success |-> FALSE, output |-> <<>>,
          error |-> <<"F", "a", "l", "l", "b", "a", "c", "k", " ", language>>]

\* one event per line of text that is not blank
RECURSIVE lineEvents(_, _)
lineEvents(lines, kind) ==
    IF lines = <<>> THEN <<>>
    ELSE (IF Truthy(strip(Head(lines)))
          THEN <<[type |-> kind, content |-> Head(lines)]>>
          ELSE <<>>) \o lineEvents(Tail(lines), kind)

replayAll(text, kind) ==
    IF Truthy(text) THEN [i \in 1..Len(split(text)) |-> [type |-> kind, content |-> split(text)[i]]]
    ELSE <<>>

replay(text, kind) ==
    IF Truthy(text) THEN lineEvents(split(text), kind) ELSE <<>>

_execute_streaming_e2b(language, o) ==
    LET r == _execute_with_e2b(language, o) IN
    IF r.raised
    THEN <<[type |-> "error", message |-> <<"Code interpreter execution failed">>]>>
    ELSE replay(r.output, "stdout") \o replay(r.error, "stderr")
         \o <<[type |-> "result", success |-> r.success]>>

_execute_streaming_fallback(language, o) ==
    LET r == _execute_fallback(language, o) IN
    replay(r.output, "stdout") \o replay(r.error, "stderr")
    \o <<[type |-> "result", success |-> r.success,
          exit_code |-> IF r.success THEN 0 ELSE 1]>>

ValidationErrorCodeOnly(code, language) ==
    IF ~Truthy(strip(code))
    THEN <<[type |-> "error", message |-> <<"Empty code provided">>]>>
    ELSE <<>>

\* the events execute_streaming yields before it looks at any backend
ValidationError(code, language) ==
    IF language \notin supported_languages
    THEN <<[type |-> "error", message |-> <<"Unsupported language: ", language>>]>>
    ELSE IF ~Truthy(strip(code))
    THEN <<[type |-> "error", message |-> <<"Empty code provided">>]>>
    ELSE <<>>

\* the whole stream of one execute_streaming call, given what the backend does
execute_streaming(code, language, e2b, o) ==
    IF ValidationError(code, language) # <<>> THEN ValidationError(code, language)
    ELSE <<[type |-> "start", language |-> language]>>
         \o (IF e2b THEN _execute_streaming_e2b(language, o)
             ELSE _execute_streaming_fallback(language, o))
         \o <<[type |-> "complete"]>>

\* the ValueError execute raises before it looks at any backend, if any
executeError(code, language) ==
    IF language \notin supported_languages
    THEN <<"Unsupported language: ", language, ". Supported: ", "supported_languages">>
    ELSE IF ~Truthy(strip(code)) THEN <<"Empty code provided">>
    ELSE <<>>

\* the dict execute returns (without its execution_time), given what the
\* backend does
execute(code, language, e2b, o) ==
    IF executeError(code, language) # <<>>
    THEN [success |-> FALSE, output |-> <<>>, error |-> executeError(code, language),
          language |-> language]
    ELSE LET r == IF e2b THEN _execute_with_e2b(language, o)
                  ELSE _execute_fallback(language, o)
         IN IF r.raised
            THEN [success |-> FALSE, output |-> <<>>, error |-> <<"exception">>,
                  language |-> language]
            ELSE [success |-> r.success, output |-> r.output, error |-> r.error,
                  language |-> language]

\* temp files and node processes one backend call leaves behind
Leftover(language, e2b, o) ==
    IF ~e2b /\ language = "javascript"
    THEN [temp_files |-> IF _execute_javascript_fallback(o).temp_file THEN 1 ELSE 0,
          processes |-> IF _execute_javascript_fallback(o).process THEN 1 ELSE 0]
    ELSE [temp_files |-> 0, processes |-> 0]

(***************************************************************************)
(* _execute_python_fallback on programs of a small Python fragment.  A      *)
(* program is a list of statements over two names: x, which is not a        *)
(* builtin, and abs, which is one of the builtins the method hands to the   *)
(* program.  A value is "builtin" (the original function) or "1" (an        *)
(* object made by a program); "unset" marks a missing attribute.            *)
(***************************************************************************)
MaxRuns == 2

MaxStmts == 2

PyNames == {"x", "abs"}

\* x = 1  /  print(x)  /  print(abs)  /  print.__self__.abs = 1
PyStmts == {[op |-> "assign", name |-> "x"], [op |-> "print", name |-> "x"],
            [op |-> "print", name |-> "abs"], [op |-> "patch", name |-> "abs"]}

PyPrograms == UNION {[1..k -> PyStmts] : k \in 1..MaxStmts}

\* the builtins module of a fresh server process
InitModule == [n \in PyNames |-> IF n = "abs" THEN "builtin" ELSE "unset"]

\* the __builtins__ dict of restricted_globals: the method looks each listed
\* name up when it is called, and finds it in the builtins module
restricted_builtins(module) == [n \in {"abs"} |-> module[n]]

\* exec(code, restricted_globals): the statements run in order against the
\* globals dict g and the builtins dict b of this call; print.__self__ is the
\* builtins module m of the process.  A name that is in neither dict raises
\* NameError, which ends the program.
RECURSIVE exec(_, _, _, _, _)
exec(code, g, b, m, out) ==
    IF code = <<>> THEN [exc |-> <<>>, out |-> out, module |-> m]
    ELSE LET st == Head(code) IN
         IF st.op = "assign"
         THEN exec(Tail(code), [g EXCEPT ![st.name] = "1"], b, m, out)
         ELSE IF st.op = "patch"
         THEN exec(Tail(code), g, b, [m EXCEPT ![st.name] = "1"], out)
         ELSE IF g[st.name] # "unset"
         THEN exec(Tail(code), g, b, m, out \o <<g[st.name], "\n">>)
         ELSE IF st.name \in DOMAIN b /\ b[st.name] # "unset"
         THEN exec(Tail(code), g, b, m, out \o <<b[st.name], "\n">>)
         ELSE [exc |-> << <<"name ", st.name, " is not defined">> >>, out |-> out,
               module |-> m]

\* one call of the method in a process whose builtins module is module: the
\* result dict, and the builtins module the call leaves
run_python_fallback(code, module) ==
    LET r == exec(code, [n \in PyNames |-> "unset"], restricted_builtins(module),
                  module, <<>>)
    IN [result |-> _execute_python_fallback([exc |-> r.exc, out |-> r.out, err |-> <<>>]),
        module |-> r.module]

(***************************************************************************)
(* RAGService (services/rag_service.py, the one main.py imports)           *)
(***************************************************************************)
chunk_size == 50

\* a literal of n printable characters
Lit(n) == [i \in 1..n |-> "a"]

\* What model.generate_content does: it raises, or returns a response text.
GenOutcomes == {[raised |-> TRUE], [raised |-> FALSE, text |-> <<>>],
                [raised |-> FALSE, text |-> Lit(chunk_size + 1)],
                [raised |-> FALSE, text |-> Lit(chunk_size) \o <<"\n">>]}

_fallback_explanation(code, output, error) ==
    join(<<Lit(58),
           <<"\n">> \o Lit(9) \o <<"\n">> \o Lit(3) \o <<"\n">> \o code \o <<"\n">> \o Lit(3)>>
         \o (IF Truthy(output)
             THEN <<(<<"\n">> \o Lit(11) \o <<"\n">> \o Lit(3) \o <<"\n">> \o output
                     \o <<"\n">> \o Lit(3))>>
             ELSE <<>>)
         \o (IF Truthy(error)
             THEN <<(<<"\n">> \o Lit(10) \o <<"\n">> \o Lit(3) \o <<"\n">> \o error
                     \o <<"\n">> \o Lit(3)),
                    (<<"\n">> \o Lit(76))>>
             ELSE <<(<<"\n">> \o Lit(42))>>)
         \o <<(<<"\n">> \o Lit(108))>>)

\* text[i:i + chunk_size] for i in range(0, len(text), chunk_size)
RECURSIVE chunks(_)
chunks(text) ==
    IF text = <<>> THEN <<>>
    ELSE IF Len(text) <= chunk_size THEN <<text>>
    ELSE <<SubSeq(text, 1, chunk_size)>> \o chunks(SubSeq(text, chunk_size + 1, Len(text)))

\* the text one explain_code call returns, given what the model does
explain_code(code, output, error, has_model, g) ==
    IF ~has_model THEN _fallback_explanation(code, output, error)
    ELSE IF g.raised THEN _fallback_explanation(code, output, error)
    ELSE g.text

explain_code_streaming_silent(code, output, error, has_model, g) ==
    IF ~has_model THEN <<_fallback_explanation(code, output, error)>>
    ELSE IF g.raised THEN <<>>
    ELSE chunks(g.text)

\* the chunks one explain_code_streaming call yields, given what the model does
explain_code_streaming(code, output, error, has_model, g) ==
    IF ~has_model THEN <<_fallback_explanation(code, output, error)>>
    ELSE IF g.raised THEN <<_fallback_explanation(code, output, error)>>
    ELSE chunks(g.text)

(***************************************************************************)
(* WebSocketManager                                                        *)
(***************************************************************************)
MaxSockets == 2

MaxTasks == 2

ClientIds == {"c1", "c2"}

Sockets == 1..MaxSockets

Tasks == 1..MaxTasks

VARIABLES
    active_connections,  \* WebSocketManager.active_connections: client id -> socket
    client_tasks,        \* WebSocketManager.client_tasks: client id -> list of tasks
    task_state,          \* asyncio.Task objects: "unused", "pending", "done", "cancelled"
    lastCall,            \* the manager method called last: its name, its client id,
                         \* whether the id was registered and whether it raised
    bc,                  \* the broadcast call in progress or made last, if any
    e2b_enabled,         \* CodeExecutor._is_e2b_enabled()
    rag_has_model,       \* RAGService.model is not None
    ws_pc,               \* where each websocket_endpoint coroutine stands
    ws_client,           \* its client_id path parameter
    ws_open,             \* whether the client's end of the socket is open
    ws_inbox,            \* messages the client has sent and the loop has not received
    ws_outbox,           \* messages delivered to the client, while its end is open,
                         \* since the loop last received a message
    ws_op,               \* the operation started by the command received last, if any
    ws_sent,             \* number of commands sent by all clients
    ws_cmd,              \* the message receive_json returned last to each loop
    ex_code, ex_language, \* the arguments of the executor calls under study
    ex_outcome,           \* what the backend does for them
    ex_stream,            \* the events execute_streaming has yielded so far
    ex_pc,                \* where the caller of the executor stands
    ex_calls,             \* number of backend calls the executor has made
    ex_result,            \* what execute returned
    ex_os,                \* temp files and node processes left by finished calls
    ex_ran,               \* the interpreter the last backend call gave the code to
    py_module,            \* the attributes of the server process's builtins module
    py_log,               \* the local Python executions made so far, with results
    rg_last,              \* the explanation call made last: its arguments, whether
                          \* its model tier failed, and the chunks it delivered
    rg_attempts,          \* number of calls of a model made by explanation calls
    rg_calls              \* number of explanation calls made

reg_vars == <<active_connections, client_tasks, task_state, lastCall, bc>>

cfg_vars == <<e2b_enabled, rag_has_model>>

ws_vars == <<ws_pc, ws_client, ws_open, ws_inbox, ws_outbox, ws_op, ws_sent, ws_cmd>>

ex_vars == <<ex_code, ex_language, ex_outcome, ex_stream, ex_pc, ex_calls, ex_result, ex_os,
             ex_ran, py_module, py_log>>

rg_vars == <<rg_last, rg_attempts, rg_calls>>

vars == <<reg_vars, cfg_vars, ws_vars, ex_vars, rg_vars>>

\* f with key k removed / set
Del(f, k) == [x \in DOMAIN f \ {k} |-> f[x]]

Put(f, k, v) == [x \in DOMAIN f \cup {k} |-> IF x = k THEN v ELSE f[x]]

Range(q) == {q[i] : i \in 1..Len(q)}

\* asyncio.Task.done(): finished or cancelled
done(tstate, t) == tstate[t] \in {"done", "cancelled"}

Registry == [conns |-> active_connections, tasks |-> client_tasks,
             tstate |-> task_state, raised |-> FALSE]

connect_no_tasks(R, websocket, client_id) ==
    [R EXCEPT !.conns = Put(R.conns, client_id, websocket)]

connect(R, websocket, client_id) ==
    [R EXCEPT !.conns = Put(R.conns, client_id, websocket),
              !.tasks = Put(R.tasks, client_id, <<>>)]

disconnect_no_cancel(R, client_id) ==
    IF client_id \in DOMAIN R.conns
    THEN [R EXCEPT !.tasks = Del(R.tasks, client_id),
                   !.conns = Del(R.conns, client_id)]
    ELSE R

disconnect_unguarded(R, client_id) ==
    LET mine == IF client_id \in DOMAIN R.tasks THEN Range(R.tasks[client_id]) ELSE {}
    IN [R EXCEPT !.tstate = [t \in DOMAIN R.tstate |->
                                IF t \in mine /\ ~done(R.tstate, t)
                                THEN "cancelled" ELSE R.tstate[t]],
                 !.tasks = Del(R.tasks, client_id),
                 !.conns = Del(R.conns, client_id),
                 !.raised = client_id \notin DOMAIN R.conns]

disconnect(R, client_id) ==
    IF client_id \in DOMAIN R.conns
    THEN LET mine == IF client_id \in DOMAIN R.tasks
                     THEN Range(R.tasks[client_id]) ELSE {}
         IN [R EXCEPT !.tstate = [t \in DOMAIN R.tstate |->
                                     IF t \in mine /\ ~done(R.tstate, t)
                                     THEN "cancelled" ELSE R.tstate[t]],
                      !.tasks = Del(R.tasks, client_id),
                      !.conns = Del(R.conns, client_id)]
    ELSE R

add_client_task(R, client_id, task) ==
    IF client_id \in DOMAIN R.tasks
    THEN [R EXCEPT !.tasks[client_id] = Append(R.tasks[client_id], task)]
    ELSE R

\* no broadcast has been called yet
NoBroadcast == [pc |-> "idle", size |-> 0, visited |-> {}, failed |-> {}, stayed |-> {},
                missed |-> {}]

\* a broadcast that is suspended at a send sees the ids connect or leave the
\* registry: they have not been registered for the whole broadcast
Touched(b, ids) == IF b.pc = "iter" THEN [b EXCEPT !.stayed = @ \ ids] ELSE b

\* the registry variables take the value R, and the step is recorded as call
SetRegistry(R, call) ==
    /\ bc' = Touched(bc, (IF call.op = "connect" THEN {call.id} ELSE {})
                          \cup (DOMAIN active_connections \ DOMAIN R.conns))
    /\ active_connections' = R.conns
    /\ client_tasks' = R.tasks
    /\ task_state' = R.tstate
    /\ lastCall' = [call EXCEPT !.raised = R.raised,
                                !.known = call.id \in DOMAIN active_connections]

InitRegistry ==
    /\ active_connections = <<>>
    /\ client_tasks = <<>>
    /\ task_state = [t \in Tasks |-> "unused"]
    /\ lastCall = [op |-> "init", id |-> "", raised |-> FALSE, known |-> FALSE]
    /\ bc = NoBroadcast

(***************************************************************************)
(* The manager driven through its public methods by any caller             *)
(***************************************************************************)
RegConnect(websocket, client_id) ==
    /\ SetRegistry(connect(Registry, websocket, client_id),
                   [op |-> "connect", id |-> client_id, raised |-> FALSE, known |-> FALSE])
    /\ UNCHANGED <<cfg_vars, ws_vars, ex_vars, rg_vars>>

RegDisconnect(client_id) ==
    /\ SetRegistry(disconnect(Registry, client_id),
                   [op |-> "disconnect", id |-> client_id, raised |-> FALSE, known |-> FALSE])
    /\ UNCHANGED <<cfg_vars, ws_vars, ex_vars, rg_vars>>

\* the caller creates a task and hands it to add_client_task
RegAddClientTask(client_id, task) ==
    /\ task_state[task] = "unused"
    /\ SetRegistry(add_client_task([Registry EXCEPT !.tstate[task] = "pending"],
                                   client_id, task),
                   [op |-> "add_client_task", id |-> client_id, raised |-> FALSE, known |-> FALSE])
    /\ UNCHANGED <<cfg_vars, ws_vars, ex_vars, rg_vars>>

\* a pending task runs to its end
TaskFinish(task) ==
    /\ task_state[task] = "pending"
    /\ task_state' = [task_state EXCEPT ![task] = "done"]
    /\ lastCall' = [op |-> "task_done", id |-> "", raised |-> FALSE, known |-> FALSE]
    /\ UNCHANGED <<active_connections, client_tasks, bc, cfg_vars, ws_vars, ex_vars, rg_vars>>

NoResult == [status |-> "none"]

NoCall == [svc |-> "none"]

InitRagIdle ==
    /\ rg_last = NoCall
    /\ rg_attempts = 0
    /\ rg_calls = 0

InitExecIdle ==
    /\ ex_code = <<>>
    /\ ex_language = "python"
    /\ ex_outcome = NoOutcome
    /\ ex_stream = <<>>
    /\ ex_pc = "idle"
    /\ ex_calls = 0
    /\ ex_result = NoResult
    /\ ex_os = [temp_files |-> 0, processes |-> 0]
    /\ ex_ran = "none"
    /\ py_module = InitModule
    /\ py_log = <<>>

NoOp == [kind |-> "none"]

NoMsg == [action |-> "", frame |-> "none"]

InitWsIdle ==
    /\ ws_pc = [s \in Sockets |-> "new"]
    /\ ws_client = [s \in Sockets |-> ""]
    /\ ws_open = [s \in Sockets |-> TRUE]
    /\ ws_inbox = [s \in Sockets |-> <<>>]
    /\ ws_outbox = [s \in Sockets |-> <<>>]
    /\ ws_op = [s \in Sockets |-> NoOp]
    /\ ws_sent = 0
    /\ ws_cmd = [s \in Sockets |-> NoMsg]

InitRegistrySpec ==
    /\ InitRegistry
    /\ e2b_enabled = FALSE
    /\ rag_has_model = FALSE
    /\ InitWsIdle
    /\ InitExecIdle
    /\ InitRagIdle

NextRegistry ==
    \/ \E w \in Sockets, id \in ClientIds : RegConnect(w, id)
    \/ \E id \in ClientIds : RegDisconnect(id)
    \/ \E id \in ClientIds, t \in Tasks : RegAddClientTask(id, t)
    \/ \E t \in Tasks : TaskFinish(t)

SpecRegistry == InitRegistrySpec /\ [][NextRegistry]_vars

(***************************************************************************)
(* The manager with all its methods.  send_personal_message and broadcast  *)
(* await websocket.send_text, which delivers the text or raises.  The      *)
(* tasks handed to add_client_task stay pending until they are cancelled.  *)
(***************************************************************************)
\* disconnect applied to each id of a set, in any order
RECURSIVE disconnect_each(_, _)
disconnect_each(R, ids) ==
    IF ids = {} THEN R
    ELSE LET id == CHOOSE x \in ids : TRUE
         IN disconnect_each(disconnect(R, id), ids \ {id})

disconnect_all_one(R) ==
    IF DOMAIN R.conns = {} THEN R
    ELSE disconnect(R, CHOOSE id \in DOMAIN R.conns : TRUE)

\* for client_id in list(self.active_connections.keys()): disconnect
disconnect_all(R) == disconnect_each(R, DOMAIN R.conns)

\* the method does nothing for an id that is not registered; a send that
\* raises makes it disconnect the id
send_personal_message(R, client_id, sent) ==
    IF client_id \in DOMAIN R.conns /\ ~sent THEN disconnect(R, client_id) ELSE R

RegDisconnectAll ==
    /\ active_connections # <<>>
    /\ SetRegistry(disconnect_all(Registry),
                   [op |-> "disconnect_all", id |-> "", raised |-> FALSE, known |-> FALSE])
    /\ UNCHANGED <<cfg_vars, ws_vars, ex_vars, rg_vars>>

\* The except clause runs after the await of send_text; disconnect looks the
\* id up again at that moment, so the send and the disconnect that follows a
\* failed send are taken as one step.
RegSendPersonalMessage(client_id) ==
    /\ client_id \in ClientIds
    /\ \E sent \in BOOLEAN :
          SetRegistry(send_personal_message(Registry, client_id, sent),
                      [op |-> "send_personal_message", id |-> client_id,
                       raised |-> FALSE, known |-> FALSE])
    /\ UNCHANGED <<cfg_vars, ws_vars, ex_vars, rg_vars>>

broadcast_next_abort(b) ==
    IF Cardinality(DOMAIN active_connections) # b.size
    THEN /\ bc' = [NoBroadcast EXCEPT !.pc = "raised"]
         /\ UNCHANGED <<active_connections, client_tasks, task_state>>
    ELSE IF DOMAIN active_connections \subseteq b.visited \/ b.failed # {}
    THEN /\ bc' = [NoBroadcast EXCEPT !.pc = "done", !.failed = b.failed,
                                      !.stayed = b.stayed,
                                      !.missed = b.stayed \ b.visited]
         /\ active_connections' = disconnect_each(Registry, b.failed).conns
         /\ client_tasks' = disconnect_each(Registry, b.failed).tasks
         /\ task_state' = disconnect_each(Registry, b.failed).tstate
    ELSE /\ \E id \in DOMAIN active_connections \ b.visited, sent \in BOOLEAN :
              bc' = [b EXCEPT !.visited = @ \cup {id},
                              !.failed = IF sent THEN @ ELSE @ \cup {id}]
         /\ UNCHANGED <<active_connections, client_tasks, task_state>>

\* The for loop of broadcast takes the next item of active_connections.items()
\* and awaits its send, where b is the state of the call: the dict iterator
\* raises RuntimeError when the size of the dict is not what it was when the
\* iteration began; at the end of the iteration the clients whose send raised
\* are disconnected and the call returns.  A call that has returned keeps
\* failed, the clients whose send raised, stayed, the clients that were
\* registered all along, and missed, those of them that were not sent the
\* message.
broadcast_next(b) ==
    IF Cardinality(DOMAIN active_connections) # b.size
    THEN /\ bc' = [NoBroadcast EXCEPT !.pc = "raised"]
         /\ UNCHANGED <<active_connections, client_tasks, task_state>>
    ELSE IF DOMAIN active_connections \subseteq b.visited
    THEN /\ bc' = [NoBroadcast EXCEPT !.pc = "done", !.failed = b.failed,
                                      !.stayed = b.stayed,
                                      !.missed = b.stayed \ b.visited]
         /\ active_connections' = disconnect_each(Registry, b.failed).conns
         /\ client_tasks' = disconnect_each(Registry, b.failed).tasks
         /\ task_state' = disconnect_each(Registry, b.failed).tstate
    ELSE /\ \E id \in DOMAIN active_connections \ b.visited, sent \in BOOLEAN :
              bc' = [b EXCEPT !.visited = @ \cup {id},
                              !.failed = IF sent THEN @ ELSE @ \cup {id}]
         /\ UNCHANGED <<active_connections, client_tasks, task_state>>

\* broadcast is called: it returns at once when nobody is registered, and
\* otherwise runs up to its first send
RegBroadcast ==
    /\ bc.pc # "iter"
    /\ IF active_connections = <<>>
       THEN /\ bc' = [NoBroadcast EXCEPT !.pc = "done"]
            /\ UNCHANGED <<active_connections, client_tasks, task_state>>
       ELSE broadcast_next([NoBroadcast EXCEPT
                               !.pc = "iter",
                               !.size = Cardinality(DOMAIN active_connections),
                               !.stayed = DOMAIN active_connections])
    /\ lastCall' = [op |-> "broadcast", id |-> "", raised |-> FALSE, known |-> FALSE]
    /\ UNCHANGED <<cfg_vars, ws_vars, ex_vars, rg_vars>>

\* the send at which broadcast was suspended is over
RegBroadcastResume ==
    /\ bc.pc = "iter"
    /\ broadcast_next(bc)
    /\ lastCall' = [op |-> "broadcast", id |-> "", raised |-> bc'.pc = "raised",
                    known |-> FALSE]
    /\ UNCHANGED <<cfg_vars, ws_vars, ex_vars, rg_vars>>

\* add_client_task is handed a new task: tasks are interchangeable, so the
\* caller takes the unused one of lowest number
RegAddNewTask(client_id) ==
    /\ client_id \in ClientIds
    /\ \E t \in Tasks :
          /\ \A u \in Tasks : u < t => task_state[u] # "unused"
          /\ RegAddClientTask(client_id, t)

\* connect is handed the WebSocket of a new connection, one that is not in
\* the registry: sockets are interchangeable, so it is the one of lowest
\* number
RegConnectNew(client_id) ==
    /\ client_id \in ClientIds
    /\ \E w \in Sockets :
          /\ \A id \in DOMAIN active_connections : active_connections[id] # w
          /\ \A u \in Sockets :
                u < w => \E id \in DOMAIN active_connections : active_connections[id] = u
          /\ RegConnect(w, client_id)

NextManager ==
    \/ \E id \in ClientIds : RegConnectNew(id)
    \/ \E id \in ClientIds : RegDisconnect(id)
    \/ \E id \in ClientIds : RegAddNewTask(id)
    \/ RegDisconnectAll
    \/ \E id \in ClientIds : RegSendPersonalMessage(id)
    \/ RegBroadcast
    \/ RegBroadcastResume

SpecManager == InitRegistrySpec /\ [][NextManager]_vars

(***************************************************************************)
(* The application: websocket_endpoint, handle_code_execution and          *)
(* handle_code_explanation, one coroutine per socket.  main.py never calls *)
(* add_client_task, so no task is ever registered here.                    *)
(***************************************************************************)
MaxCmds == 2

Commands ==
    {[action |-> "execute_code", code |-> <<"a">>, language |-> "python",
      output |-> <<>>, error |-> <<>>],
     [action |-> "execute_code", code |-> <<"a">>, language |-> "ruby",
      output |-> <<>>, error |-> <<>>],
     [action |-> "execute_code", code |-> <<" ">>, language |-> "python",
      output |-> <<>>, error |-> <<>>],
     [action |-> "explain_code", code |-> <<"a">>, language |-> "python",
      output |-> <<>>, error |-> <<"a">>],
     [action |-> "explain_code", code |-> <<>>, language |-> "python",
      output |-> <<>>, error |-> <<>>],
     [action |-> "ping", code |-> <<>>, language |-> "python",
      output |-> <<>>, error |-> <<>>]}

\* a frame that receive_json cannot turn into a dict: text that is not JSON,
\* or JSON that is not an object (data.get then fails)
BadFrame == [action |-> "", frame |-> "malformed"]

\* the backend behaviours the application is run against
SessionOutcomes(e2b, language) ==
    IF e2b
    THEN {[raised |-> TRUE],
          [raised |-> FALSE, error |-> <<>>, stdout |-> << <<"a">> >>,
           stderr |-> <<>>, results |-> <<>>]}
    ELSE IF language = "python"
    THEN {[exc |-> <<>>, out |-> <<"a", "\n">>, err |-> <<>>],
          [exc |-> << <<"a">> >>, out |-> <<>>, err |-> <<>>],
          PyDiverges, PyExits}
    ELSE IF language = "javascript" THEN {[kind |-> "timeout"]}
    ELSE {NoOutcome}

SessionGen(has_model) == IF has_model THEN GenOutcomes ELSE {NoOutcome}

\* the sandbox's run_code, or the model's generate_content, raised
BackendRaised(o) == "raised" \in DOMAIN o /\ o.raised

\* an execute or explain operation of socket s is in progress: its handler is
\* between two events ("stream"), inside a backend call that does not give up
\* the event loop ("backend"), inside such a call for good ("hung"), or ended
\* by an exception that no except clause of the application catches and that
\* stops the event loop ("down")
InOp(s) == ws_pc[s] \in {"stream", "backend", "hung", "down"}

\* exec(code) of the local Python fallback and Sandbox.run_code of the remote
\* sandbox are plain synchronous calls inside coroutines; the node subprocess
\* of the JavaScript fallback is awaited
Blocking(e2b, language) == e2b \/ language = "python"

\* the thread of the event loop is inside a synchronous call of some handler:
\* no coroutine of the server runs until that call returns
LoopHeld == \E t \in Sockets : ws_pc[t] \in {"backend", "hung", "down"}

\* websocket.send_json(m) inside a handler's try block.  On an open socket
\* the message is delivered.  On a socket the client has closed the server
\* library either drops the message or raises; the handler's except clause
\* then sends an error message, which is again dropped ("returned": the
\* handler returns) or raises WebSocketDisconnect ("disconnect") or another
\* exception ("leak") into websocket_endpoint.
SendFrom(s, box, m) ==
    IF ws_open[s]
    THEN {[out |-> Append(box, m), end |-> "proceed"]}
    ELSE {[out |-> box, end |-> e] :
             e \in {"proceed", "returned", "disconnect", "leak"}}

HandlerSend(s, m) == SendFrom(s, ws_outbox[s], m)

LoopSendTwice(s, box, m) ==
    IF ws_open[s]
    THEN {[out |-> Append(Append(box, m), m), end |-> "proceed"]}
    ELSE {[out |-> box, end |-> e] : e \in {"proceed", "disconnect", "leak"}}

\* websocket.send_json(m) in the loop of websocket_endpoint itself
LoopSend(s, box, m) ==
    IF ws_open[s]
    THEN {[out |-> Append(box, m), end |-> "proceed"]}
    ELSE {[out |-> box, end |-> e] : e \in {"proceed", "disconnect", "leak"}}

\* The coroutine of socket s goes on after a send that ended as r: to nextpc
\* with operation record op, or out of the handler with record failed.
\* WebSocketDisconnect reaching websocket_endpoint calls manager.disconnect;
\* any other exception ends the coroutine without it.  A coroutine that has
\* ended leaves nothing behind but its entry in the registry, if any.
WsAfterSend(s, r, inbox, nextpc, op, failed) ==
    /\ ws_pc' = [ws_pc EXCEPT ![s] =
                    IF r.end = "proceed" THEN nextpc
                    ELSE IF r.end = "returned" THEN "recv" ELSE "closed"]
    /\ IF r.end \in {"proceed", "returned"}
       THEN /\ ws_outbox' = [ws_outbox EXCEPT ![s] = r.out]
            /\ ws_op' = [ws_op EXCEPT ![s] = IF r.end = "proceed" THEN op ELSE failed]
            /\ ws_inbox' = [ws_inbox EXCEPT ![s] = inbox]
       ELSE /\ ws_outbox' = [ws_outbox EXCEPT ![s] = <<>>]
            /\ ws_op' = [ws_op EXCEPT ![s] = NoOp]
            /\ ws_inbox' = [ws_inbox EXCEPT ![s] = <<>>]
    /\ IF r.end = "disconnect"
       THEN SetRegistry(disconnect(Registry, ws_client[s]),
                        [op |-> "disconnect", id |-> ws_client[s], raised |-> FALSE, known |-> FALSE])
       ELSE UNCHANGED reg_vars

Failed(op) == IF op = NoOp THEN NoOp ELSE [op EXCEPT !.status = "failed"]

\* a client opens /ws/{client_id}: accept, then manager.connect registers it;
\* sockets are numbered in the order in which they connect, and the first
\* client id to be used is called c1
WsConnect(s, client_id) ==
    /\ ws_pc[s] = "new"
    /\ ~LoopHeld
    /\ \A t \in Sockets : t < s => ws_pc[t] # "new"
    /\ s = 1 => client_id = "c1"
    /\ SetRegistry(connect(Registry, s, client_id),
                   [op |-> "connect", id |-> client_id, raised |-> FALSE, known |-> FALSE])
    /\ ws_pc' = [ws_pc EXCEPT ![s] = "recv"]
    /\ ws_client' = [ws_client EXCEPT ![s] = client_id]
    /\ UNCHANGED <<cfg_vars, ws_open, ws_inbox, ws_outbox, ws_op, ws_sent, ws_cmd, ex_vars, rg_vars>>

\* the client sends a message; pipelined records that it did so while an
\* operation of this socket was in progress.  Nothing reads the message
\* before receive_json returns it, so its content is drawn there.
ClientSend(s) ==
    /\ ws_pc[s] = "recv" \/ InOp(s)
    /\ ws_open[s]
    /\ ws_sent < MaxCmds
    /\ ws_inbox' = [ws_inbox EXCEPT ![s] =
                       Append(@, [pipelined |-> InOp(s)])]
    /\ ws_sent' = ws_sent + 1
    /\ UNCHANGED <<reg_vars, cfg_vars, ws_pc, ws_client, ws_open, ws_outbox, ws_op, ws_cmd, ex_vars, rg_vars>>

\* the client closes its end, and with it goes what it had been delivered;
\* closedDuring records that an operation was running at that moment
ClientClose(s) ==
    /\ ws_pc[s] = "recv" \/ InOp(s)
    /\ ws_open[s]
    /\ ws_open' = [ws_open EXCEPT ![s] = FALSE]
    /\ ws_outbox' = [ws_outbox EXCEPT ![s] = <<>>]
    /\ ws_op' = [ws_op EXCEPT ![s] =
                    IF InOp(s) THEN [@ EXCEPT !.closedDuring = TRUE] ELSE NoOp]
    /\ UNCHANGED <<reg_vars, cfg_vars, ws_pc, ws_client, ws_inbox, ws_sent, ws_cmd, ex_vars, rg_vars>>

\* An exception other than WebSocketDisconnect reaches websocket_endpoint:
\* it sends "Internal server error" and returns, whatever becomes of that
\* send.  manager.disconnect is not called on this path.
WsLoopFailed(s) ==
    \E r \in LoopSend(s, <<>>, [type |-> "error",
                                 message |-> <<"Internal server error">>]) :
        /\ ws_pc' = [ws_pc EXCEPT ![s] = "closed"]
        /\ ws_outbox' = [ws_outbox EXCEPT ![s] = r.out]
        /\ ws_op' = [ws_op EXCEPT ![s] = NoOp]
        /\ ws_inbox' = [ws_inbox EXCEPT ![s] = <<>>]
        /\ UNCHANGED reg_vars

NoCodeUntrimmed(c) == c.code = <<>>

\* not code.strip(), the first check of both handlers
NoCode(c) == ~Truthy(strip(c.code))

NewOp(kind, m) ==
    [kind |-> kind, cmd |-> m.cmd, pipelined |-> m.pipelined, events |-> <<>>,
     n |-> 0, called |-> FALSE, raised |-> FALSE, closedDuring |-> FALSE,
     status |-> "running"]

\* receive_json returns the next command and the loop dispatches it; the
\* handlers run up to their first await after validation
WsReceive(s) ==
    /\ ws_pc[s] = "recv"
    /\ ~LoopHeld
    /\ ws_inbox[s] # <<>>
    /\ \E c \in Commands \cup {BadFrame} :
       LET m == [cmd |-> c, pipelined |-> Head(ws_inbox[s]).pipelined]
       IN /\ ws_cmd' = [ws_cmd EXCEPT ![s] = c]
          /\ IF c = BadFrame
             THEN WsLoopFailed(s)
             ELSE IF c.action = "execute_code"
             THEN IF NoCode(c)
                  THEN \E r \in SendFrom(s, <<>>, [type |-> "error",
                                                   message |-> <<"No code provided">>]) :
                          WsAfterSend(s, r, Tail(ws_inbox[s]), "recv", NoOp, NoOp)
                  ELSE \E r \in SendFrom(s, <<>>, [type |-> "execution_start",
                                                   language |-> c.language]) :
                          WsAfterSend(s, r, Tail(ws_inbox[s]), "stream", NewOp("execute", m),
                                      Failed(NewOp("execute", m)))
             ELSE IF c.action = "explain_code"
             THEN IF NoCode(c)
                  THEN \E r \in SendFrom(s, <<>>, [type |-> "error",
                                                   message |-> <<"No code provided for explanation">>]) :
                          WsAfterSend(s, r, Tail(ws_inbox[s]), "recv", NoOp, NoOp)
                  ELSE \E r \in SendFrom(s, <<>>, [type |-> "explanation_start"]) :
                          WsAfterSend(s, r, Tail(ws_inbox[s]), "stream", NewOp("explain", m),
                                      Failed(NewOp("explain", m)))
             ELSE \E r \in LoopSend(s, <<>>, [type |-> "error",
                                              message |-> <<"Unknown action: ", c.action>>]) :
                     WsAfterSend(s, r, Tail(ws_inbox[s]), "recv", NoOp, NoOp)
    /\ UNCHANGED <<cfg_vars, ws_client, ws_open, ws_sent, ex_vars, rg_vars>>

\* receive_json raises WebSocketDisconnect: the client has closed and
\* nothing is left to receive
WsDisconnected(s) ==
    /\ ws_pc[s] = "recv"
    /\ ~LoopHeld
    /\ ws_inbox[s] = <<>>
    /\ ~ws_open[s]
    /\ SetRegistry(disconnect(Registry, ws_client[s]),
                   [op |-> "disconnect", id |-> ws_client[s], raised |-> FALSE, known |-> FALSE])
    /\ ws_pc' = [ws_pc EXCEPT ![s] = "closed"]
    /\ ws_outbox' = [ws_outbox EXCEPT ![s] = <<>>]
    /\ ws_op' = [ws_op EXCEPT ![s] = NoOp]
    /\ ws_cmd' = [ws_cmd EXCEPT ![s] = NoMsg]
    /\ UNCHANGED <<cfg_vars, ws_client, ws_open, ws_inbox, ws_sent, ex_vars, rg_vars>>

\* the stream is exhausted: the handler sends its completion message
WsComplete(s, m) ==
    \E r \in HandlerSend(s, m) :
        WsAfterSend(s, r, ws_inbox[s], "recv", [ws_op[s] EXCEPT !.status = "completed"],
                    Failed(ws_op[s]))

WsYieldedStale(s, op) ==
    LET m == IF op.kind = "execute"
             THEN [type |-> "execution_output", data |-> op.events[1]]
             ELSE [type |-> "explanation_chunk", data |-> op.events[1]]
    IN \E r \in HandlerSend(s, m) : WsAfterSend(s, r, ws_inbox[s], "stream", op, Failed(op))

\* The generator has yielded its next event, events[n] of op, and the loop
\* body relays it.  The resumption of the generator touches no shared state,
\* so it is taken together with the send that follows it.
WsYielded(s, op) ==
    LET m == IF op.kind = "execute"
             THEN [type |-> "execution_output", data |-> op.events[op.n]]
             ELSE [type |-> "explanation_chunk", data |-> op.events[op.n]]
    IN \E r \in HandlerSend(s, m) : WsAfterSend(s, r, ws_inbox[s], "stream", op, Failed(op))

\* the async for of handle_code_execution resumes execute_streaming
WsPullExecute(s) ==
    /\ ws_pc[s] = "stream"
    /\ ~LoopHeld
    /\ ws_op[s].kind = "execute"
    /\ LET op == ws_op[s]
           c == op.cmd
           bad == ValidationError(c.code, c.language)
       IN IF op.n = 0
          THEN WsYielded(s, [op EXCEPT !.n = 1,
                                !.events = IF bad # <<>> THEN bad
                                           ELSE <<[type |-> "start",
                                                   language |-> c.language]>>])
          ELSE IF bad = <<>> /\ ~op.called
          THEN IF Blocking(e2b_enabled, c.language)
               THEN /\ ws_pc' = [ws_pc EXCEPT ![s] = "backend"]
                    /\ UNCHANGED <<reg_vars, ws_inbox, ws_outbox, ws_op>>
               ELSE \E o \in SessionOutcomes(e2b_enabled, c.language) :
                       WsYielded(s, [op EXCEPT !.n = 2, !.called = TRUE,
                                        !.raised = BackendRaised(o),
                                        !.events = execute_streaming(c.code, c.language,
                                                                     e2b_enabled, o)])
          ELSE IF op.n < Len(op.events)
          THEN WsYielded(s, [op EXCEPT !.n = op.n + 1])
          ELSE WsComplete(s, [type |-> "execution_complete"])
    /\ UNCHANGED <<cfg_vars, ws_client, ws_open, ws_sent, ws_cmd, ex_vars, rg_vars>>

\* the synchronous backend call of socket s returns, and the generator goes
\* on to its next event; or the call is one that never returns; or it raises
\* an exception that is not an Exception, which passes every except clause of
\* the executor, of the handler and of websocket_endpoint
WsBackendReturn(s) ==
    /\ ws_pc[s] = "backend"
    /\ LET op == ws_op[s]
           c == op.cmd
       IN \E o \in SessionOutcomes(e2b_enabled, c.language) :
             IF o \in {PyDiverges, PyExits}
             THEN /\ ws_pc' = [ws_pc EXCEPT ![s] = IF o = PyDiverges THEN "hung"
                                                   ELSE "down"]
                  /\ UNCHANGED <<reg_vars, ws_inbox, ws_outbox, ws_op>>
             ELSE WsYielded(s, [op EXCEPT !.n = 2, !.called = TRUE,
                                   !.raised = BackendRaised(o),
                                   !.events = execute_streaming(c.code, c.language,
                                                                e2b_enabled, o)])
    /\ UNCHANGED <<cfg_vars, ws_client, ws_open, ws_sent, ws_cmd, ex_vars, rg_vars>>

\* the async for of handle_code_explanation resumes explain_code_streaming
WsPullExplain(s) ==
    /\ ws_pc[s] = "stream"
    /\ ~LoopHeld
    /\ ws_op[s].kind = "explain"
    /\ LET op == ws_op[s]
           c == op.cmd
       IN IF ~op.called
          THEN \E g \in SessionGen(rag_has_model) :
                  LET evs == explain_code_streaming(c.code, c.output, c.error,
                                                    rag_has_model, g)
                      started == [op EXCEPT !.called = TRUE, !.events = evs,
                                            !.raised = BackendRaised(g)]
                  IN IF evs = <<>>
                     THEN \E r \in HandlerSend(s, [type |-> "explanation_complete"]) :
                             WsAfterSend(s, r, ws_inbox[s], "recv",
                                         [started EXCEPT !.status = "completed"],
                                         Failed(started))
                     ELSE WsYielded(s, [started EXCEPT !.n = 1])
          ELSE IF op.n < Len(op.events)
          THEN WsYielded(s, [op EXCEPT !.n = op.n + 1])
          ELSE WsComplete(s, [type |-> "explanation_complete"])
    /\ UNCHANGED <<cfg_vars, ws_client, ws_open, ws_sent, ws_cmd, ex_vars, rg_vars>>

\* the two services are configured independently of each other and share no
\* state, so the deployments with neither and with both credentials show
\* every behaviour of each
Init ==
    /\ InitRegistry
    /\ e2b_enabled \in BOOLEAN
    /\ rag_has_model = e2b_enabled
    /\ InitWsIdle
    /\ InitExecIdle
    /\ InitRagIdle

Next ==
    \/ \E s \in Sockets, id \in ClientIds : WsConnect(s, id)
    \/ \E s \in Sockets : ClientSend(s)
    \/ \E s \in Sockets : ClientClose(s)
    \/ \E s \in Sockets : WsReceive(s)
    \/ \E s \in Sockets : WsDisconnected(s)
    \/ \E s \in Sockets : WsPullExecute(s)
    \/ \E s \in Sockets : WsBackendReturn(s)
    \/ \E s \in Sockets : WsPullExplain(s)

Spec == Init /\ [][Next]_vars

\* One connection on its own, from accept to the end of its coroutine.  The
\* handlers of main.py send on their own websocket argument only and touch the
\* manager only through connect and disconnect, so what one session relays
\* depends on no other session; the other endpoints stay unconnected here.
NextSession ==
    \/ \E id \in ClientIds : WsConnect(1, id)
    \/ ClientSend(1)
    \/ ClientClose(1)
    \/ WsReceive(1)
    \/ WsDisconnected(1)
    \/ WsPullExecute(1)
    \/ WsBackendReturn(1)
    \/ WsPullExplain(1)

SpecSession == Init /\ [][NextSession]_vars

(***************************************************************************)
(* execute_streaming as a generator, resumed one event at a time           *)
(***************************************************************************)
InitExec ==
    /\ InitRegistry
    /\ e2b_enabled \in BOOLEAN
    /\ rag_has_model = FALSE
    /\ InitWsIdle
    /\ ex_code \in Codes
    /\ ex_language \in Languages
    /\ ex_outcome = NoOutcome
    /\ ex_stream = <<>>
    /\ ex_pc = "created"
    /\ ex_calls = 0
    /\ ex_result = NoResult
    /\ ex_os = [temp_files |-> 0, processes |-> 0]
    /\ ex_ran = "none"
    /\ py_module = InitModule
    /\ py_log = <<>>
    /\ InitRagIdle

\* first resumption of the generator: validation, then the start event
ExecStart ==
    /\ ex_pc = "created"
    /\ LET bad == ValidationError(ex_code, ex_language) IN
       IF bad # <<>>
       THEN /\ ex_stream' = bad
            /\ ex_pc' = "done"
       ELSE /\ ex_stream' = <<[type |-> "start", language |-> ex_language]>>
            /\ ex_pc' = "backend"
    /\ UNCHANGED <<reg_vars, cfg_vars, ws_vars, rg_vars, ex_code, ex_language, ex_outcome,
                   ex_calls, ex_result, ex_os, ex_ran, py_module, py_log>>

\* the await of the backend call: the whole result is computed here, unless
\* the call never returns, or raises an exception that the except Exception
\* clauses of the executor let through, which ends the generator
ExecBackend ==
    /\ ex_pc = "backend"
    /\ \E o \in BackendOutcomes(e2b_enabled, ex_language) :
          /\ ex_outcome' = o
          /\ IF o \in {PyDiverges, PyExits}
             THEN /\ ex_pc' = IF o = PyDiverges THEN "hung" ELSE "escaped"
                  /\ ex_os' = ex_os
             ELSE /\ ex_pc' = "replay"
                  /\ ex_os' = Leftover(ex_language, e2b_enabled, o)
    /\ ex_calls' = ex_calls + 1
    /\ ex_ran' = Interpreter(e2b_enabled, ex_language)
    /\ UNCHANGED <<reg_vars, cfg_vars, ws_vars, rg_vars, ex_code, ex_language, ex_stream, ex_result,
                   py_module, py_log>>

\* one more event of the replay, up to and including the last one
ExecYield ==
    /\ ex_pc = "replay"
    /\ LET full == execute_streaming(ex_code, ex_language, e2b_enabled, ex_outcome)
           n == Len(ex_stream) + 1
       IN /\ ex_stream' = Append(ex_stream, full[n])
          /\ ex_pc' = IF n = Len(full) THEN "done" ELSE "replay"
    /\ UNCHANGED <<reg_vars, cfg_vars, ws_vars, rg_vars, ex_code, ex_language, ex_outcome,
                   ex_calls, ex_result, ex_os, ex_ran, py_module, py_log>>

\* execute is called with the same arguments once the stream is drained, and
\* the backend does for it what it did for the stream
ExecExecute ==
    /\ ex_pc = "done"
    /\ ex_result' = execute(ex_code, ex_language, e2b_enabled, ex_outcome)
    /\ IF executeError(ex_code, ex_language) = <<>>
       THEN /\ ex_calls' = ex_calls + 1
            /\ ex_os' = [temp_files |-> ex_os.temp_files
                             + Leftover(ex_language, e2b_enabled, ex_outcome).temp_files,
                         processes |-> ex_os.processes
                             + Leftover(ex_language, e2b_enabled, ex_outcome).processes]
       ELSE UNCHANGED <<ex_calls, ex_os>>
    /\ ex_pc' = "folded"
    /\ UNCHANGED <<reg_vars, cfg_vars, ws_vars, rg_vars, ex_code, ex_language, ex_outcome, ex_stream,
                   ex_ran, py_module, py_log>>

NextExec == ExecStart \/ ExecBackend \/ ExecYield \/ ExecExecute

SpecExec == InitExec /\ [][NextExec]_vars

\* the caller keeps resuming the generator and awaiting execute: a step that
\* can be taken is eventually taken
SpecExecFair == SpecExec /\ WF_vars(NextExec)

IsTerminal(e) == e.type \in {"complete", "error"}

\* the generator of execute_streaming has been run to its end
Exhausted == ex_pc \in {"done", "folded"}

\* the generator of execute_streaming was ended by an exception it let out
Escaped == ex_pc = "escaped"

(***************************************************************************)
(* The explanation services called on their own: RAGService of             *)
(* rag_service.py ("minimal", the one main.py imports) and RAGService of   *)
(* rag_service_full.py ("full").  rag_has_model stands for the service     *)
(* having its model tier: the key is set and initialize succeeded.         *)
(***************************************************************************)
MaxCalls == 2

ExplainInputs == [code : {<<"a">>}, output : {<<>>, <<"a">>}, error : {<<>>, <<"a">>}]

\* vectorstore.similarity_search raises, or returns this many documents
RetrievalOutcomes == {[raised |-> TRUE], [raised |-> FALSE, docs |-> "1"]}

\* llm.ainvoke raises, or returns a message with this content
InvokeOutcomes == {[raised |-> TRUE], [raised |-> FALSE, text |-> <<"a">>]}

\* generate_content(stream=True): the chunk texts it yields before it raises
\* or ends
StreamOutcomes ==
    {[chunks |-> <<>>, raised |-> TRUE],
     [chunks |-> << <<"a">> >>, raised |-> TRUE],
     [chunks |-> << <<"a">>, <<>>, <<"a">> >>, raised |-> FALSE],
     [chunks |-> <<>>, raised |-> FALSE]}

\* the number of documents found, as it is printed
_retrieve_relevant_docs(rt) == IF rt.raised THEN "0" ELSE rt.docs

_generate_explanation(g) ==
    IF g.raised THEN <<"Error generating explanation: ", "exception">> ELSE g.text

\* the chunks whose text is not empty
RECURSIVE truthyChunks(_)
truthyChunks(cs) ==
    IF cs = <<>> THEN <<>>
    ELSE (IF Truthy(Head(cs)) THEN <<Head(cs)>> ELSE <<>>) \o truthyChunks(Tail(cs))

_generate_explanation_streaming(g) ==
    truthyChunks(g.chunks)
    \o (IF g.raised THEN << <<"Error generating explanation: ", "exception">> >> ELSE <<>>)

full_explain_code(initialized, rt, g) ==
    IF ~initialized
    THEN <<"Sorry, I couldn't explain the code due to an error: ",
           "RAG service not initialized">>
    ELSE _generate_explanation(g)

full_explain_code_streaming(initialized, rt, g) ==
    IF ~initialized THEN << <<"RAG service not initialized">> >>
    ELSE << <<"Analyzing code and searching documentation...">>,
            <<"Found ", _retrieve_relevant_docs(rt), " relevant documentation sections">> >>
         \o _generate_explanation_streaming(g)

\* one explanation call returns: it is recorded with the chunks it delivered
\* (a single one for the non-streaming methods)
RagReturn(svc, mode, in, attempted, failed, out) ==
    /\ rg_last' = [svc |-> svc, mode |-> mode, code |-> in.code, output |-> in.output,
                   error |-> in.error, failed |-> failed, out |-> out]
    /\ rg_attempts' = rg_attempts + (IF attempted THEN 1 ELSE 0)
    /\ rg_calls' = rg_calls + 1
    /\ UNCHANGED <<reg_vars, cfg_vars, ws_vars, ex_vars>>

ExplainCode ==
    /\ rg_calls < MaxCalls
    /\ \E in \in ExplainInputs, g \in SessionGen(rag_has_model) :
            RagReturn("minimal", "explain", in, rag_has_model, BackendRaised(g),
                      <<explain_code(in.code, in.output, in.error, rag_has_model, g)>>)

ExplainCodeStreaming ==
    /\ rg_calls < MaxCalls
    /\ \E in \in ExplainInputs, g \in SessionGen(rag_has_model) :
            RagReturn("minimal", "stream", in, rag_has_model, BackendRaised(g),
                      explain_code_streaming(in.code, in.output, in.error, rag_has_model, g))

FullExplainCode ==
    /\ rg_calls < MaxCalls
    /\ \E in \in ExplainInputs, rt \in RetrievalOutcomes, g \in InvokeOutcomes :
            RagReturn("full", "explain", in, rag_has_model, rag_has_model /\ g.raised,
                      <<full_explain_code(rag_has_model, rt, g)>>)

FullExplainCodeStreaming ==
    /\ rg_calls < MaxCalls
    /\ \E in \in ExplainInputs, rt \in RetrievalOutcomes, g \in StreamOutcomes :
            RagReturn("full", "stream", in, rag_has_model, rag_has_model /\ g.raised,
                      full_explain_code_streaming(rag_has_model, rt, g))

InitExplain ==
    /\ InitRegistry
    /\ e2b_enabled = FALSE
    /\ rag_has_model \in BOOLEAN
    /\ InitWsIdle
    /\ InitExecIdle
    /\ InitRagIdle

NextExplain ==
    \/ ExplainCode
    \/ ExplainCodeStreaming
    \/ FullExplainCode
    \/ FullExplainCodeStreaming

SpecExplain == InitExplain /\ [][NextExplain]_vars

(***************************************************************************)
(* The local Python fallback called again and again in one server process, *)
(* by any session                                                          *)
(***************************************************************************)
InitPython ==
    /\ InitRegistry
    /\ e2b_enabled = FALSE
    /\ rag_has_model = FALSE
    /\ InitWsIdle
    /\ InitExecIdle
    /\ InitRagIdle

PyExecute ==
    /\ Len(py_log) < MaxRuns
    /\ \E code \in PyPrograms :
          LET r == run_python_fallback(code, py_module) IN
          /\ py_log' = Append(py_log, [code |-> code, result |-> r.result])
          /\ py_module' = r.module
    /\ UNCHANGED <<reg_vars, cfg_vars, ws_vars, rg_vars, ex_code, ex_language, ex_outcome,
                   ex_stream, ex_pc, ex_calls, ex_result, ex_os, ex_ran>>

NextPython == PyExecute

SpecPython == InitPython /\ [][NextPython]_vars

(***************************************************************************)
(* Properties                                                              *)
(***************************************************************************)
Last(q) == q[Len(q)]

\* C1: every client id has at most one execute-or-explain operation in
\* progress, whatever the interleaving of connects, commands and disconnects.
C1_OneOperationPerSession ==
    \A id \in ClientIds :
        Cardinality({s \in Sockets : ws_client[s] = id /\ InOp(s)}) <= 1

\* C2: a command sent while an operation of its session was in progress is
\* rejected as busy and never becomes an operation itself.
C2_BusyNeverExecuted ==
    \A s \in Sockets : ws_op[s] # NoOp => ~ws_op[s].pipelined

\* the stream of op was ended by a terminal error event with reason cancelled
EndsCancelled(op) ==
    /\ op.kind = "execute"
    /\ op.n > 0
    /\ op.events[op.n].type = "error"
    /\ op.events[op.n].message = <<"cancelled">>

\* C3: an operation whose client disconnected while it was running ends its
\* stream with a terminal error event whose reason is cancelled.
C3_DisconnectCancels ==
    \A s \in Sockets :
        (ws_op[s] # NoOp /\ ws_op[s].closedDuring /\ ws_op[s].status # "running")
            => EndsCancelled(ws_op[s])

\* C4: the stream of execute_streaming holds no terminal event (complete or
\* error) before its last element, and once the generator has ended its last
\* element is a terminal event.
C4_OneTerminalLast ==
    /\ \A i \in 1..Len(ex_stream) :
          IsTerminal(ex_stream[i]) => (i = Len(ex_stream) /\ Exhausted)
    /\ (Exhausted \/ Escaped) => (ex_stream # <<>> /\ IsTerminal(Last(ex_stream)))

IsOutputLine(e) ==
    /\ e.type \in {"stdout", "stderr"}
    /\ Truthy(strip(e.content))

ExecValidDone ==
    /\ Exhausted
    /\ ValidationError(ex_code, ex_language) = <<>>

\* C5 as stated: for valid input the stream starts with start and every event
\* strictly between start and the terminal event is a non-blank stdout or
\* stderr event.
C5_OnlyOutputBetween ==
    ExecValidDone =>
        /\ ex_stream[1].type = "start"
        /\ \A i \in 2..(Len(ex_stream) - 1) : IsOutputLine(ex_stream[i])

\* C5 as amended: for valid input the stream starts with start; once it has
\* reached its terminal event, the event right before the terminal event is a
\* result event, and every event between start and that result event is a
\* non-blank stdout or stderr event.
C5_OutputThenResult ==
    /\ (ValidationError(ex_code, ex_language) = <<>> /\ ex_stream # <<>>)
          => ex_stream[1].type = "start"
    /\ ExecValidDone =>
          /\ Len(ex_stream) >= 3
          /\ ex_stream[Len(ex_stream) - 1].type = "result"
          /\ \A i \in 2..(Len(ex_stream) - 2) : IsOutputLine(ex_stream[i])

C5_Witness ==
    /\ ExecValidDone
    /\ ~e2b_enabled
    /\ ex_language = "python"
    /\ ex_outcome.exc = <<>>
    /\ ex_outcome.out = <<"\n", "a">>
    /\ Len(ex_stream) = 4

IsClosing(m) == m.type \in {"execution_complete", "explanation_complete", "error"}

\* C6: an accepted request ends with exactly one closing message, a completion
\* message or an error message, and a request whose backend stream ended with
\* an error event is closed by an error message.
C6_ErrorStreamClosedByError ==
    \A s \in Sockets :
        (ws_op[s] # NoOp /\ ws_op[s].status # "running" /\ ws_open[s]) =>
            /\ ws_outbox[s] # <<>>
            /\ \A i \in 1..Len(ws_outbox[s]) :
                  IsClosing(ws_outbox[s][i]) <=> i = Len(ws_outbox[s])
            /\ (ws_op[s].kind = "execute" /\ Last(ws_op[s].events).type = "error")
                  => Last(ws_outbox[s]).type = "error"

IsRelay(m) == m.type \in {"execution_output", "explanation_chunk"}

Delivered(s) == SelectSeq(ws_outbox[s], IsRelay)

\* C7: within one operation the relayed messages carry, in order, the events
\* the backend has yielded so far (all of them while the socket is open, a
\* prefix of them once it is closed); the start message comes before them and
\* the completion message, if any, after the last event of the stream.
C7_RelayInOrder ==
    \A s \in Sockets :
        ws_op[s] # NoOp =>
            LET op == ws_op[s]
                box == ws_outbox[s]
                k == Len(Delivered(s))
            IN /\ k <= op.n
               /\ ws_open[s] => k = op.n
               /\ \A i \in 1..k : Delivered(s)[i].data = op.events[i]
               /\ box # <<>> =>
                     /\ box[1].type \in {"execution_start", "explanation_start"}
                     /\ \A i \in 2..(k + 1) : IsRelay(box[i])
                     /\ Len(box) \in {k + 1, k + 2}
                     /\ Len(box) = k + 2 =>
                           /\ Last(box).type \in {"execution_complete",
                                                  "explanation_complete"}
                           /\ k = Len(op.events)
                           /\ op.status = "completed"

C7_Witness ==
    \E s \in Sockets :
        /\ ws_op[s] # NoOp
        /\ ws_op[s].status = "completed"
        /\ ws_open[s]
        /\ Len(Delivered(s)) >= 3

\* C11: once the command loop of a connection has exited, the registry no
\* longer holds that connection under its client id.
C11_ClosedLeavesRegistry ==
    \A s \in Sockets :
        ws_pc[s] = "closed" =>
            ~(ws_client[s] \in DOMAIN active_connections
              /\ active_connections[ws_client[s]] = s)

\* the operation of socket s whose backend call raised has run to its end on
\* a socket that is still open
RaisedAndOver(s) ==
    /\ ws_op[s] # NoOp
    /\ ws_op[s].raised
    /\ ws_op[s].status # "running"
    /\ ws_open[s]

Receives(s) ==
    /\ ws_pc[s] = "recv"
    /\ Len(ws_inbox'[s]) < Len(ws_inbox[s])

\* C13: when an open connection receives a message whose action is neither
\* execute_code nor explain_code, the client is sent exactly one message,
\* {type: error, message: "Unknown action: <value>"}; no operation starts (so
\* no backend is invoked), the registry is unchanged and the loop is at
\* receive again with the rest of its inbox.
C13_UnknownAction ==
    [][\A s \in Sockets :
          (/\ Receives(s)
           /\ ws_open[s]
           /\ ws_cmd'[s] \in Commands
           /\ ws_cmd'[s].action \notin {"execute_code", "explain_code"})
             => /\ ws_outbox'[s] = <<[type |-> "error",
                                      message |-> <<"Unknown action: ", ws_cmd'[s].action>>]>>
                /\ ws_op'[s] = NoOp
                /\ ws_pc'[s] = "recv"
                /\ ws_inbox'[s] = Tail(ws_inbox[s])
                /\ ws_open'[s]
                /\ reg_vars' = reg_vars]_vars

C13_Witness ==
    \E s \in Sockets :
        /\ ws_cmd[s] \in Commands
        /\ ws_cmd[s].action = "ping"
        /\ ws_open[s]
        /\ ws_pc[s] = "recv"
        /\ Len(ws_outbox[s]) = 1
        /\ ws_inbox[s] # <<>>

IsStart(m) == m.type \in {"execution_start", "explanation_start"}

\* C15: when a connection receives an execute_code or explain_code request
\* whose code is empty or whitespace-only, no operation starts (the backend is
\* never invoked) and no start message is sent; if the connection is open the
\* client is sent one error message and nothing else, and the loop is at
\* receive again.
C15_BlankCodeRejected ==
    [][\A s \in Sockets :
          (/\ Receives(s)
           /\ ws_cmd'[s] \in Commands
           /\ ws_cmd'[s].action \in {"execute_code", "explain_code"}
           /\ strip(ws_cmd'[s].code) = <<>>)
             => /\ ws_op'[s] = NoOp
                /\ ws_pc'[s] # "stream"
                /\ \A i \in 1..Len(ws_outbox'[s]) : ~IsStart(ws_outbox'[s][i])
                /\ ws_open[s] =>
                      /\ Len(ws_outbox'[s]) = 1
                      /\ ws_outbox'[s][1].type = "error"
                      /\ ws_pc'[s] = "recv"]_vars

C15_Witness ==
    \E s \in Sockets :
        /\ ws_cmd[s] \in Commands
        /\ ws_cmd[s].action = "explain_code"
        /\ ws_cmd[s].code = <<>>
        /\ ws_open[s]
        /\ ws_pc[s] = "recv"
        /\ ws_outbox[s] = <<[type |-> "error",
                             message |-> <<"No code provided for explanation">>]>>

\* C14: for a language outside supported_languages neither execute nor
\* execute_streaming calls a backend; the stream is a single error event
\* naming the language, and the result of execute is a failure whose error
\* names the language.
C14_UnsupportedNoBackend ==
    ex_language \notin supported_languages =>
        /\ ex_calls = 0
        /\ ex_pc \notin {"backend", "replay", "hung", "escaped"}
        /\ Exhausted =>
              ex_stream = <<[type |-> "error",
                             message |-> <<"Unsupported language: ", ex_language>>]>>
        /\ ex_pc = "folded" =>
              /\ ~ex_result.success
              /\ ex_result.output = <<>>
              /\ SubSeq(ex_result.error, 1, 2) = <<"Unsupported language: ", ex_language>>

C14_Witness ==
    /\ ex_language = "ruby"
    /\ ex_code = <<"a">>
    /\ ex_pc = "folded"
    /\ ex_calls = 0

\* the contents of the events of one kind in a stream, one per line
RECURSIVE payloadLines(_, _)
payloadLines(stream, kind) ==
    IF stream = <<>> THEN <<>>
    ELSE (IF Head(stream).type = kind THEN <<Head(stream).content>> ELSE <<>>)
         \o payloadLines(Tail(stream), kind)

\* the final status of a stream: its result event says success
StreamSuccess(stream) ==
    \E i \in 1..Len(stream) : stream[i].type = "result" /\ stream[i].success

\* C16: the result of execute equals the fold of the stream execute_streaming
\* yields for the same input and the same backend behaviour: same success,
\* output and error equal to the stdout and stderr payloads of the stream,
\* and, when the stream ends in an error event, the same error message.
C16_ExecuteEqualsFold ==
    ex_pc = "folded" =>
        /\ ex_result.success = StreamSuccess(ex_stream)
        /\ IF Last(ex_stream).type = "error"
           THEN ex_result.error = Last(ex_stream).message
           ELSE /\ ex_result.output = join(payloadLines(ex_stream, "stdout"))
                /\ ex_result.error = join(payloadLines(ex_stream, "stderr"))

\* C17: every invocation terminates: whatever the program does, the stream is
\* drained to its terminal event and execute returns.
C17_EveryCallReturns == <>(ex_pc = "folded")

\* C18: whenever a call of the local JavaScript fallback has returned, the
\* temporary file it created is deleted and the node process it spawned is
\* not running.
C18_JsFallbackReleases ==
    /\ ex_os.temp_files = 0
    /\ ex_os.processes = 0

\* C19: while the operation of one session is inside a backend call, every
\* other session that has a command waiting can have it received, and every
\* other session with an operation in progress can have its next event
\* delivered.
C19_SessionsIndependent ==
    \A s, t \in Sockets :
        (s # t /\ ws_pc[s] = "backend") =>
            /\ (ws_pc[t] = "recv" /\ ws_inbox[t] # <<>>) => ENABLED WsReceive(t)
            /\ ws_pc[t] = "stream" => ENABLED (WsPullExecute(t) \/ WsPullExplain(t))

\* the chunks of a call put together
RECURSIVE Concat(_)
Concat(cs) == IF cs = <<>> THEN <<>> ELSE Head(cs) \o Concat(Tail(cs))

\* C20: an explanation call whose model tier failed still delivers the static
\* fallback explanation of its arguments, which is not empty, and every call
\* of a service that has a model tier calls the model, whatever happened to
\* the calls before it.
C20_FallbackOnFailure ==
    [][rg_calls' = rg_calls + 1 =>
          /\ rg_last'.failed =>
                /\ Concat(rg_last'.out) # <<>>
                /\ Concat(rg_last'.out) =
                      _fallback_explanation(rg_last'.code, rg_last'.output, rg_last'.error)
          /\ rag_has_model => rg_attempts' = rg_attempts + 1]_vars

\* C21: every chunk a call of explain_code_streaming yields has at most
\* chunk_size characters, every chunk but the last has exactly chunk_size, and
\* the chunks put together are the explanation text explain_code returns for
\* the same arguments and the same model behaviour.
C21_FixedSizeChunks ==
    (rg_last.svc = "minimal" /\ rg_last.mode = "stream") =>
        /\ \A i \in 1..Len(rg_last.out) :
              /\ Len(rg_last.out[i]) <= chunk_size
              /\ i < Len(rg_last.out) => Len(rg_last.out[i]) = chunk_size
        /\ \E g \in SessionGen(rag_has_model) :
              Concat(rg_last.out) =
                 explain_code(rg_last.code, rg_last.output, rg_last.error, rag_has_model, g)

\* C22: no explanation_chunk message sent to a client carries an empty or
\* whitespace-only text.
C22_NoBlankChunk ==
    \A s \in Sockets :
        \A i \in 1..Len(ws_outbox[s]) :
            ws_outbox[s][i].type = "explanation_chunk" =>
                Truthy(strip(ws_outbox[s][i].data))

\* C23: no call of execute_streaming is ended by an exception: the generator
\* never lets one out, whatever the program it runs does.
C23_NoExceptionEscapes == ~Escaped

C25_OwnInterpreter ==
    (e2b_enabled /\ ex_ran # "none") =>
        /\ ex_language = "python" => ex_ran = "python"
        /\ ex_language = "javascript" => ex_ran = "node"
        /\ ex_language = "bash" => ex_ran = "/bin/bash"
        /\ ex_language # "python" => ex_ran # "python"

\* the kinds of the events of a stream, in order
Kinds(es) == [i \in 1..Len(es) |-> es[i].type]

\* C26: a javascript program that behaves the same way in the sandbox as on
\* the local fallback gets the same success flag from execute and the same
\* sequence of event kinds from execute_streaming on both backends.
C26_BackendInvisible ==
    (/\ ~e2b_enabled
     /\ ex_language = "javascript"
     /\ ex_pc = "folded"
     /\ ValidationError(ex_code, ex_language) = <<>>) =>
        LET o == js_wrapper_execution(ex_outcome) IN
        /\ ex_result.success = execute(ex_code, ex_language, TRUE, o).success
        /\ Kinds(ex_stream) = Kinds(execute_streaming(ex_code, ex_language, TRUE, o))

\* C27: every execution of the local Python fallback returns what the same
\* code returns in a fresh server process, so two executions of the same
\* code return the same output and nothing an earlier execution defined or
\* changed shows in a later one.
C27_RunsIndependent ==
    \A i \in 1..Len(py_log) :
        py_log[i].result = run_python_fallback(py_log[i].code, InitModule).result

\* C28: of two connections that use the same client id, the one that
\* connected later stays registered under that id for as long as it is open
\* and its command loop runs, whatever happens to the earlier one.
C28_NewerStaysRegistered ==
    \A s, t \in Sockets :
        (/\ s < t
         /\ ws_pc[s] # "new"
         /\ ws_client[s] = ws_client[t]
         /\ ws_open[t]
         /\ ws_pc[t] \in {"recv", "stream", "backend"}) =>
            /\ ws_client[t] \in DOMAIN active_connections
            /\ active_connections[ws_client[t]] = t

\* C29: the ids that have a task list are exactly the ids that have a
\* connection.
C29_SameIds == DOMAIN client_tasks = DOMAIN active_connections

\* a broadcast has returned in a registry where one client, which has a task,
\* is left and a task of another client has been cancelled
C29_Witness ==
    /\ lastCall.op = "broadcast"
    /\ bc.pc = "done"
    /\ Cardinality(DOMAIN active_connections) = 1
    /\ \E id \in DOMAIN client_tasks : client_tasks[id] # <<>>
    /\ \E t \in Tasks : task_state[t] = "cancelled"

\* C30: a broadcast never ends with an error, and when it returns it has sent
\* the message to every client that was registered from its call to its
\* return.
C30_BroadcastCompletes ==
    /\ bc.pc # "raised"
    /\ bc.pc = "done" => bc.missed = {}

\* the tasks recorded for the ids of a set
TasksOf(ids) ==
    UNION {Range(client_tasks[id]) : id \in ids \cap DOMAIN client_tasks}

\* C31: the step in which a broadcast returns finds that every client that
\* was registered all along has been sent to, whichever sends raised; it
\* removes exactly the registered clients whose send raised and cancels
\* their tasks that are not done, and it leaves every other client, its
\* connection, its task list and its tasks as they were.
C31_BroadcastFailures ==
    [][(bc.pc = "iter" /\ bc'.pc = "done") =>
          /\ bc.stayed \subseteq bc.visited
          /\ DOMAIN active_connections' = DOMAIN active_connections \ bc.failed
          /\ \A id \in DOMAIN active_connections' :
                /\ active_connections'[id] = active_connections[id]
                /\ client_tasks'[id] = client_tasks[id]
          /\ \A t \in Tasks :
                task_state'[t] = IF t \in TasksOf(bc.failed) /\ ~done(task_state, t)
                                 THEN "cancelled" ELSE task_state[t]]_vars

\* a broadcast to two clients that stayed registered has returned: the send
\* to c1 raised and c1 is gone with its task cancelled, the send to c2 did
\* not and c2 is still registered
C31_Witness ==
    /\ lastCall.op = "broadcast"
    /\ bc.pc = "done"
    /\ bc.stayed = {"c1", "c2"}
    /\ bc.failed = {"c1"}
    /\ DOMAIN active_connections = {"c2"}
    /\ \E t \in Tasks : task_state[t] = "cancelled"

\* a call of add_client_task for id records the task it is handed when id is
\* registered, and changes neither map when it is not
AddRecordsIfRegistered(id) ==
    (lastCall'.op = "add_client_task" /\ lastCall'.id = id) =>
        /\ active_connections' = active_connections
        /\ id \notin DOMAIN active_connections => client_tasks' = client_tasks
        /\ id \in DOMAIN active_connections =>
              \E t \in Tasks :
                 /\ task_state[t] = "unused"
                 /\ task_state'[t] = "pending"
                 /\ client_tasks' = [client_tasks EXCEPT ![id] = Append(@, t)]

\* a task recorded for id stays recorded for id, or id leaves the registry
\* in this step and the task is done or cancelled by it
RecordedUntilDisconnect(id) ==
    id \in DOMAIN client_tasks =>
        \A t \in Range(client_tasks[id]) :
            \/ id \in DOMAIN client_tasks' /\ t \in Range(client_tasks'[id])
            \/ /\ id \notin DOMAIN active_connections'
               /\ done(task_state, t) \/ task_state'[t] = "cancelled"

\* C32: add_client_task records a task only for a registered id and leaves
\* the registry alone otherwise, and a recorded task stays recorded for its
\* id until the next disconnect of that id, which cancels it if it is not
\* done.
C32_RecordedTasksCancelled ==
    [][\A id \in ClientIds :
          AddRecordsIfRegistered(id) /\ RecordedUntilDisconnect(id)]_vars

PyRaised ==
    /\ ~e2b_enabled
    /\ ex_language = "python"
    /\ ValidationError(ex_code, ex_language) = <<>>
    /\ "exc" \in DOMAIN ex_outcome
    /\ ex_outcome.exc # <<>>

\* C34: when the program of a local Python execution prints and then raises,
\* execute returns a failure whose error is the exception's message and
\* whose output is what the program printed, and the stream replays the
\* printed lines as stdout events before the stderr events of the message.
C34_OutputBeforeException ==
    (PyRaised /\ ex_pc = "folded") =>
        /\ ~ex_result.success
        /\ ex_result.error = ex_outcome.exc[1]
        /\ ex_result.output = ex_outcome.out
        /\ SubSeq(ex_stream, 2, Len(ex_stream) - 2) =
              replay(ex_outcome.out, "stdout") \o replay(ex_outcome.exc[1], "stderr")

\* C8: a connect for a client id that is already registered cancels every
\* task of that id that is not done.
C8_ConnectTearsDown ==
    [][\A id \in ClientIds :
          (lastCall'.op = "connect" /\ lastCall'.id = id
           /\ id \in DOMAIN active_connections)
             => \A t \in Range(client_tasks[id]) :
                   ~done(task_state, t) => task_state'[t] = "cancelled"]_vars

\* C9: a disconnect of a registered id cancels each of its tasks that is not
\* done, removes the id from both maps, and leaves the entries and the tasks
\* of every other id as they were.
C9_DisconnectFrame ==
    [][\A id \in ClientIds :
          (lastCall'.op = "disconnect" /\ lastCall'.id = id
           /\ id \in DOMAIN active_connections)
             => /\ \A t \in Range(client_tasks[id]) :
                      ~done(task_state, t) => task_state'[t] = "cancelled"
                /\ id \notin DOMAIN active_connections'
                /\ id \notin DOMAIN client_tasks'
                /\ DOMAIN active_connections' = DOMAIN active_connections \ {id}
                /\ DOMAIN client_tasks' = DOMAIN client_tasks \ {id}
                /\ \A j \in DOMAIN active_connections' :
                      active_connections'[j] = active_connections[j]
                /\ \A j \in DOMAIN client_tasks' :
                      client_tasks'[j] = client_tasks[j]
                /\ \A t \in Tasks \ Range(client_tasks[id]) :
                      task_state'[t] = task_state[t]]_vars

C9_Witness ==
    /\ lastCall.op = "disconnect"
    /\ lastCall.known
    /\ \E t \in Tasks : task_state[t] = "cancelled"
    /\ \E j \in DOMAIN client_tasks :
          \E t \in Range(client_tasks[j]) : task_state[t] = "pending"

\* C10: a disconnect raises nothing, leaves the registry unchanged when the
\* id is not registered, and a second disconnect of the same id right after
\* it changes nothing.
C10_DisconnectIdempotent ==
    [][\A id \in ClientIds :
          (lastCall'.op = "disconnect" /\ lastCall'.id = id)
             => /\ ~lastCall'.raised
                /\ id \notin DOMAIN active_connections
                      => UNCHANGED <<active_connections, client_tasks, task_state>>
                /\ disconnect(Registry, id)' = Registry']_vars

C10_Witness ==
    /\ lastCall.op = "disconnect"
    /\ ~lastCall.known
    /\ active_connections # <<>>
    /\ \E j \in DOMAIN client_tasks :
          \E t \in Range(client_tasks[j]) : task_state[t] = "pending"

====
